---- MODULE Spec2Model ----
(***************************************************************************)
(* Model of the Seotda game server in src/backend/main.py: the room        *)
(* registry (games, player_to_room), the per-connection websocket handler  *)
(* (websocket_endpoint) with its join_room / ready / bet / new_game        *)
(* branches and its disconnect path, the round reset and the dealing.      *)
(*                                                                         *)
(* Every handler branch mutates the shared state synchronously and then    *)
(* awaits a send (the broadcast, or the error message) before it returns   *)
(* to receive_text; it touches no shared state after that send, so a       *)
(* branch is one action.  The disconnect path is the exception: it drops   *)
(* the player_to_room entry after its awaited broadcast, so it is two      *)
(* actions (Disconnect, LeaveDone) and other handlers may run in between,  *)
(* as the asyncio event loop allows.                                       *)
(***************************************************************************)
EXTENDS Integers, Sequences, FiniteSets, TLC

\* ---------------------------------------------------------------- bounds

\* Number of websocket connections the model opens.
NumConns == 2
\* Number of room identifiers create_room can hand out / clients can name.
NumRooms == 1
\* Number of distinct client-supplied player identifiers.
NumPids == 2
\* Number of websocket messages (join_room, ready, bet, new_game) processed.
MaxMsgs == 6
\* Number of shuffled decks (of TopCards) shuffle_deck may return.
NumShuffles == 3

\* ------------------------------------------------------- program constants

StartChips == 5000
MinBet == 100
MaxBet == 10000
DeckSize == 36

Conns == 1..NumConns
RoomIds == 1..NumRooms
PlayerIds == 1..NumPids
\* Python's None for the handler locals room_id and player_id.
None == 0
\* Python's None for GameState.winner (a name otherwise).
NoWinner == "None"

Actions == {"fold", "call", "half", "all-in", "check"}

\* The display name a connection sends in join_room.
PlayerName(c) == "N" \o ToString(c)

\* -------------------------------------------------------------- variables

VARIABLES
  games,          \* dict room id -> GameState
  player_to_room, \* dict player id -> room id
  issued,         \* room ids uuid4 has produced so far
  pc,             \* per connection: where its handler stands
  room_id,        \* per connection: the handler local room_id
  player_id,      \* per connection: the handler local player_id
  last,           \* the message processed last and what the handler answered
  msgs,           \* number of websocket messages processed
  sending,        \* per connection: the broadcast its handler is sending
  inbox,          \* per connection: the game_state it received last
  eval_cards,     \* the cards handed to calculate_hand_value
  eval_rank       \* what calculate_hand_value returned for them

\* What the handler steps that send their broadcast at once leave alone.
aux == <<sending, inbox, eval_cards, eval_rank>>

vars ==
  <<games, player_to_room, issued, pc, room_id, player_id, last, msgs,
    sending, inbox, eval_cards, eval_rank>>

\* ------------------------------------------------------------ cards, hands

\* SEOTTA_CARDS lists three cards per month, months 1..12 in order; a card is
\* its 1-based position in that list.
Month(card) == ((card - 1) \div 3) + 1

SpecialPairs == {<<1, 2>>, <<1, 4>>, <<1, 9>>, <<1, 10>>, <<4, 10>>, <<4, 6>>}

SpecialRank(pair) ==
  CASE pair = <<1, 2>> -> 100
    [] pair = <<1, 4>> -> 99
    [] pair = <<1, 9>> -> 98
    [] pair = <<1, 10>> -> 97
    [] pair = <<4, 10>> -> 96
    [] pair = <<4, 6>> -> 95

KkeutNames ==
  <<"mangtong", "1kkeut", "2kkeut", "3kkeut", "4kkeut",
    "5kkeut", "6kkeut", "7kkeut", "8kkeut", "9kkeut">>

\* calculate_hand_value looking the special pairs up in the order given only.
calculate_hand_value_Ordered(cards) ==
  IF Len(cards) # 2 THEN [value |-> 0, name |-> "none"]
  ELSE
    LET m1 == Month(cards[1])
        m2 == Month(cards[2])
    IN IF <<m1, m2>> \in SpecialPairs
       THEN [value |-> SpecialRank(<<m1, m2>>),
             name |-> ToString(m1) \o ToString(m2) \o "ttaeng"]
       ELSE IF m1 = m2
       THEN [value |-> 90 + m1, name |-> ToString(m1) \o "ttaeng"]
       ELSE LET total == (m1 + m2) % 10
            IN [value |-> total, name |-> KkeutNames[total + 1]]

\* calculate_hand_value: (rank, label) of a hand.
calculate_hand_value(cards) ==
  IF Len(cards) # 2 THEN [value |-> 0, name |-> "none"]
  ELSE
    LET m1 == Month(cards[1])
        m2 == Month(cards[2])
    IN IF <<m1, m2>> \in SpecialPairs \/ <<m2, m1>> \in SpecialPairs
       THEN [value |-> IF <<m1, m2>> \in SpecialPairs
                       THEN SpecialRank(<<m1, m2>>)
                       ELSE SpecialRank(<<m2, m1>>),
             name |-> ToString(m1) \o ToString(m2) \o "ttaeng"]
       ELSE IF m1 = m2
       THEN [value |-> 90 + m1, name |-> ToString(m1) \o "ttaeng"]
       ELSE LET total == (m1 + m2) % 10
            IN [value |-> total, name |-> KkeutNames[total + 1]]

\* The top four cards of the shuffled decks considered, in the order the
\* bound NumShuffles adds them.  Hand ranks of seat 0 / seat 1:
\*   91 / 92, 100 / 100 (equal ranks), 92 / 91, 99 / 6, 5 / 97, 3 / 3.
TopCards ==
  <<  <<1, 2, 4, 5>>, <<1, 4, 2, 5>>, <<4, 5, 1, 2>>,
      <<1, 10, 4, 11>>, <<4, 7, 2, 28>>, <<7, 29, 13, 22>>  >>

\* shuffle_deck: the decks it is taken to return.
Shuffles == {TopCards[k] : k \in 1..NumShuffles}

\* Python's deck[a:b] (0-based, b exclusive), cut at the end of the list.
PySlice(deck, a, b) ==
  LET hi == IF b < Len(deck) THEN b ELSE Len(deck)
  IN IF a >= hi THEN <<>> ELSE [k \in 1..(hi - a) |-> deck[a + k]]

\* deal_cards slicing deck[i:i+2], so that neighbouring hands overlap.
deal_cards_Overlap(players, deck) ==
  [i \in 1..Len(players) |->
     LET hand == PySlice(deck, i - 1, i + 1)
         hv == calculate_hand_value(hand)
     IN [players[i] EXCEPT !.cards = hand,
                           !.hand_value = hv.value,
                           !.hand_name = hv.name]]

\* deal_cards: player i (0-based) gets deck[2i:2i+2] and its rank and label.
deal_cards(players, deck) ==
  [i \in 1..Len(players) |->
     LET hand == PySlice(deck, 2 * (i - 1), 2 * (i - 1) + 2)
         hv == calculate_hand_value(hand)
     IN [players[i] EXCEPT !.cards = hand,
                           !.hand_value = hv.value,
                           !.hand_name = hv.name]]

\* ------------------------------------------------------------- game logic

\* The GameState create_room registers.
NewGame(r) ==
  [id |-> r, players |-> <<>>, current_player |-> 0, phase |-> "waiting",
   pot |-> 0, min_bet |-> MinBet, max_bet |-> MaxBet, round |-> 1,
   winner |-> NoWinner]

\* The Player join_room constructs.
NewPlayer(p, c) ==
  [id |-> p, name |-> PlayerName(c), chips |-> StartChips, current_bet |-> 0,
   cards |-> <<>>, hand_value |-> 0, hand_name |-> "",
   status |-> "waiting", is_ready |-> FALSE, websocket |-> c]

\* start_new_round leaving the pot of the last round in place.
start_new_round_KeepPot(g, deck) ==
  [g EXCEPT !.phase = "betting",
            !.current_player = 0,
            !.players = deal_cards(
               [i \in 1..Len(g.players) |->
                  [g.players[i] EXCEPT !.status = "playing",
                                       !.current_bet = 0,
                                       !.is_ready = FALSE]],
               deck)]

\* start_new_round with the deck shuffle_deck returned.
start_new_round(g, deck) ==
  [g EXCEPT !.phase = "betting",
            !.current_player = 0,
            !.pot = 0,
            !.players = deal_cards(
               [i \in 1..Len(g.players) |->
                  [g.players[i] EXCEPT !.status = "playing",
                                       !.current_bet = 0,
                                       !.is_ready = FALSE]],
               deck)]

\* next((i for p in players if p.id == p), None): 1-based, 0 when absent.
FindPlayer(players, p) ==
  IF \E i \in 1..Len(players) : players[i].id = p
  THEN CHOOSE i \in 1..Len(players) :
         /\ players[i].id = p
         /\ \A j \in 1..(i - 1) : players[j].id # p
  ELSE 0

\* next(i for p in players if p.id != p): 1-based, 0 for StopIteration.
FindOther(players, p) ==
  IF \E i \in 1..Len(players) : players[i].id # p
  THEN CHOOSE i \in 1..Len(players) :
         /\ players[i].id # p
         /\ \A j \in 1..(i - 1) : players[j].id = p
  ELSE 0

\* Indices of the players whose status is not folded, in list order.
ActiveIdx(players) ==
  SelectSeq([i \in 1..Len(players) |-> i],
            LAMBDA i : players[i].status # "folded")

\* MaxByHand giving equal ranks to the last of them.
MaxByHand_Last(players, active) ==
  CHOOSE k \in 1..Len(active) :
    /\ \A j \in 1..Len(active) :
         players[active[j]].hand_value <= players[active[k]].hand_value
    /\ \A j \in (k + 1)..Len(active) :
         players[active[j]].hand_value < players[active[k]].hand_value

\* MaxByHand taking the smallest rank (min for max).
MaxByHand_Min(players, active) ==
  CHOOSE k \in 1..Len(active) :
    /\ \A j \in 1..Len(active) :
         players[active[j]].hand_value >= players[active[k]].hand_value
    /\ \A j \in 1..(k - 1) :
         players[active[j]].hand_value > players[active[k]].hand_value

\* max(active, key=hand_value): the first of the greatest rank.
MaxByHand(players, active) ==
  CHOOSE k \in 1..Len(active) :
    /\ \A j \in 1..Len(active) :
         players[active[j]].hand_value <= players[active[k]].hand_value
    /\ \A j \in 1..(k - 1) :
         players[active[j]].hand_value < players[active[k]].hand_value

\* Lines 261-268: the resolution check a call ends with.
Resolve(g) ==
  IF \A i \in 1..Len(g.players) :
       g.players[i].status # "playing" \/ g.players[i].current_bet > 0
  THEN LET active == ActiveIdx(g.players)
       IN IF Len(active) = 2
          THEN LET w == active[MaxByHand(g.players, active)]
               IN [g EXCEPT !.players[w].chips = @ + g.pot,
                            !.winner = g.players[w].name,
                            !.phase = "finished"]
          ELSE [g EXCEPT !.phase = "reveal"]
  ELSE g

\* HasSeat without the capacity test of line 212.
HasSeat_Always(g) == Len(g.players) >= 0

\* HasSeat with the capacity test off by one.
HasSeat_OffByOne(g) == Len(g.players) <= 2

\* join_room admission (line 212 negated): the room still has a free seat.
HasSeat(g) == Len(g.players) < 2

\* Lines 216-222: the room with the new player appended.
Seat(g, p, c) == [g EXCEPT !.players = Append(@, NewPlayer(p, c))]

\* Line 241: the bet is dropped (player unknown, not betting, not the turn).
\* i is FindPlayer's result; the turn index is read only when reached.
BetIgnored(g, i, p) ==
  \/ i = 0
  \/ g.phase # "betting"
  \/ g.players[g.current_player + 1].id # p

\* Line 241 raises IndexError: the turn index is past the player list.
BetIndexError(g, i) ==
  /\ i # 0
  /\ g.phase = "betting"
  /\ g.current_player >= Len(g.players)

\* Line 247: the folding player's status.
FoldMark(g, i) == [g EXCEPT !.players[i].status = "folded"]

\* Lines 249-251: w takes the pot and the round is over.
FoldPay(g, w) ==
  [g EXCEPT !.players[w].chips = @ + g.pot,
            !.winner = g.players[w].name,
            !.phase = "finished"]

\* PlaceBet leaving the turn where it is.
PlaceBet_NoTurn(g, i, bet) ==
  [g EXCEPT !.players[i].chips = @ - bet,
            !.players[i].current_bet = @ + bet,
            !.pot = @ + bet]

\* Lines 256-259 and 273-276: player i puts bet in and the turn moves on.
PlaceBet(g, i, bet) ==
  [g EXCEPT !.players[i].chips = @ - bet,
            !.players[i].current_bet = @ + bet,
            !.pot = @ + bet,
            !.current_player = (@ + 1) % 2]

\* BetCall without the chips test of line 255.
BetCall_NoCheck(g, i) == Resolve(PlaceBet(g, i, g.min_bet))

\* Lines 253-268: call.
BetCall(g, i) ==
  IF g.players[i].chips >= g.min_bet
  THEN Resolve(PlaceBet(g, i, g.min_bet))
  ELSE g

\* Lines 270-276: half.
BetHalf(g, i) ==
  LET bet == g.pot \div 2
  IN IF g.players[i].chips >= bet THEN PlaceBet(g, i, bet) ELSE g

\* BetAllIn that forgets to add the stake to the pot.
BetAllIn_NoPot(g, i) ==
  LET bet == g.players[i].chips
  IN [g EXCEPT !.players[i].current_bet = @ + bet,
               !.players[i].chips = 0,
               !.players[i].status = "all-in",
               !.current_player = (@ + 1) % 2]

\* Lines 278-284: all-in.
BetAllIn(g, i) ==
  LET bet == g.players[i].chips
  IN [g EXCEPT !.players[i].current_bet = @ + bet,
               !.pot = @ + bet,
               !.players[i].chips = 0,
               !.players[i].status = "all-in",
               !.current_player = (@ + 1) % 2]

\* Lines 253-284: the bet branches that cannot raise.
BetEffect(g, i, a) ==
  CASE a = "call" -> BetCall(g, i)
    [] a = "half" -> BetHalf(g, i)
    [] a = "all-in" -> BetAllIn(g, i)
    [] OTHER -> g

\* Line 233: both seats taken and every player ready.
AllReady(g) ==
  Len(g.players) = 2 /\ \A i \in 1..Len(g.players) : g.players[i].is_ready

\* Line 298: the player list without the players of that id.
RemovePlayer(players, p) == SelectSeq(players, LAMBDA q : q.id # p)

\* dict.pop(key, None) and del dict[key].
Pop(dict, key) == [k \in DOMAIN dict \ {key} |-> dict[k]]

\* dict[key] = value.
Put(dict, key, value) ==
  [k \in DOMAIN dict \cup {key} |-> IF k = key THEN value ELSE dict[k]]

Msg(c, m, a, o) == [conn |-> c, msg |-> m, arg |-> a, out |-> o]

\* No broadcast in progress: no room, no snapshot, no recipient index.
NoSend == [room |-> None, snap |-> <<>>, at |-> 0]

\* ----------------------------------------------------------------- actions

Init ==
  /\ games = [r \in {} |-> NewGame(r)]
  /\ player_to_room = [p \in {} |-> None]
  /\ issued = {}
  /\ pc = [c \in Conns |-> "off"]
  /\ room_id = [c \in Conns |-> None]
  /\ player_id = [c \in Conns |-> None]
  /\ last = Msg(None, "", "", "")
  /\ msgs = 0
  /\ sending = [c \in Conns |-> NoSend]
  /\ inbox = [c \in Conns |-> <<>>]
  /\ eval_cards = <<>>
  /\ eval_rank = <<>>

\* POST /rooms (lines 167-187): uuid4 yields an identifier not seen before.
CreateRoom(r) ==
  /\ UNCHANGED aux
  /\ r \notin issued
  /\ issued' = issued \cup {r}
  /\ games' = Put(games, r, NewGame(r))
  /\ UNCHANGED <<player_to_room, pc, room_id, player_id, last, msgs>>

\* Lines 192-195: a websocket is accepted.
Connect(c) ==
  /\ UNCHANGED aux
  /\ pc[c] = "off"
  /\ pc' = [pc EXCEPT ![c] = "recv"]
  /\ UNCHANGED <<games, player_to_room, issued, room_id, player_id, last, msgs>>

\* Lines 202-225: join_room {roomId: r, playerId: p}.
JoinRoom(c, r, p) ==
  /\ UNCHANGED aux
  /\ pc[c] = "recv"
  /\ msgs < MaxMsgs
  /\ msgs' = msgs + 1
  /\ room_id' = [room_id EXCEPT ![c] = r]
  /\ player_id' = [player_id EXCEPT ![c] = p]
  /\ UNCHANGED issued
  /\ IF r \notin DOMAIN games
     THEN /\ pc' = [pc EXCEPT ![c] = "returned"]
          /\ last' = Msg(c, "join_room", "", "return")
          /\ UNCHANGED <<games, player_to_room>>
     ELSE IF ~HasSeat(games[r])
     THEN /\ UNCHANGED pc
          /\ last' = Msg(c, "join_room", "", "error")
          /\ UNCHANGED <<games, player_to_room>>
     ELSE /\ games' = [games EXCEPT ![r] = Seat(@, p, c)]
          /\ player_to_room' = Put(player_to_room, p, r)
          /\ UNCHANGED pc
          /\ last' = Msg(c, "join_room", "", "state")

\* Lines 227-235: ready.
Ready(c) ==
  /\ UNCHANGED aux
  /\ pc[c] = "recv"
  /\ msgs < MaxMsgs
  /\ msgs' = msgs + 1
  /\ UNCHANGED <<player_to_room, issued, room_id, player_id>>
  /\ IF room_id[c] \notin DOMAIN games
     THEN \* games.get(room_id) is None: game.players raises AttributeError
          /\ pc' = [pc EXCEPT ![c] = "crashed"]
          /\ last' = Msg(c, "ready", "", "crash")
          /\ UNCHANGED games
     ELSE LET r == room_id[c]
              g == games[r]
              i == FindPlayer(g.players, player_id[c])
          IN IF i = 0
             THEN /\ last' = Msg(c, "ready", "", "none")
                  /\ UNCHANGED <<games, pc>>
             ELSE LET marked == [g EXCEPT !.players[i].is_ready = TRUE]
                  IN /\ IF AllReady(marked)
                        THEN \E deck \in Shuffles :
                               games' = [games EXCEPT ![r] = start_new_round(marked, deck)]
                        ELSE games' = [games EXCEPT ![r] = marked]
                     /\ UNCHANGED pc
                     /\ last' = Msg(c, "ready", "", "state")

\* Lines 237-286: bet {action: a}.
Bet(c, a) ==
  /\ UNCHANGED aux
  /\ pc[c] = "recv"
  /\ msgs < MaxMsgs
  /\ msgs' = msgs + 1
  /\ UNCHANGED <<player_to_room, issued, room_id, player_id>>
  /\ IF room_id[c] \notin DOMAIN games
     THEN /\ pc' = [pc EXCEPT ![c] = "crashed"]
          /\ last' = Msg(c, "bet", a, "crash")
          /\ UNCHANGED games
     ELSE LET r == room_id[c]
              g == games[r]
              i == FindPlayer(g.players, player_id[c])
          IN IF BetIndexError(g, i)
             THEN /\ pc' = [pc EXCEPT ![c] = "crashed"]
                  /\ last' = Msg(c, "bet", a, "crash")
                  /\ UNCHANGED games
             ELSE IF BetIgnored(g, i, player_id[c])
             THEN /\ last' = Msg(c, "bet", a, "none")
                  /\ UNCHANGED <<games, pc>>
             ELSE IF a = "fold"
             THEN LET w == FindOther(g.players, player_id[c])
                  IN IF w = 0
                     THEN \* next() raises StopIteration after line 247
                          /\ games' = [games EXCEPT ![r] = FoldMark(g, i)]
                          /\ pc' = [pc EXCEPT ![c] = "crashed"]
                          /\ last' = Msg(c, "bet", a, "crash")
                     ELSE /\ games' = [games EXCEPT ![r] = FoldPay(FoldMark(g, i), w)]
                          /\ UNCHANGED pc
                          /\ last' = Msg(c, "bet", a, "state")
             ELSE /\ games' = [games EXCEPT ![r] = BetEffect(g, i, a)]
                  /\ UNCHANGED pc
                  /\ last' = Msg(c, "bet", a, "state")

\* Lines 288-292: new_game.
NewGameMsg(c) ==
  /\ UNCHANGED aux
  /\ pc[c] = "recv"
  /\ msgs < MaxMsgs
  /\ msgs' = msgs + 1
  /\ UNCHANGED <<player_to_room, issued, room_id, player_id>>
  /\ IF room_id[c] \notin DOMAIN games
     THEN /\ last' = Msg(c, "new_game", "", "none")
          /\ UNCHANGED <<games, pc>>
     ELSE /\ \E deck \in Shuffles :
               games' = [games EXCEPT ![room_id[c]] = start_new_round(@, deck)]
          /\ UNCHANGED pc
          /\ last' = Msg(c, "new_game", "", "state")

\* Lines 294-304: receive_text raises WebSocketDisconnect.
Disconnect(c) ==
  /\ UNCHANGED aux
  /\ pc[c] = "recv"
  /\ last' = Msg(c, "disconnect", "", "")
  /\ UNCHANGED <<issued, room_id, player_id, msgs>>
  /\ IF player_id[c] # None /\ room_id[c] # None
     THEN IF room_id[c] \in DOMAIN games
          THEN LET r == room_id[c]
                   rest == RemovePlayer(games[r].players, player_id[c])
               IN IF rest = <<>>
                  THEN /\ games' = Pop(games, r)
                       /\ player_to_room' = Pop(player_to_room, player_id[c])
                       /\ pc' = [pc EXCEPT ![c] = "closed"]
                  ELSE /\ games' = [games EXCEPT ![r].players = rest]
                       /\ pc' = [pc EXCEPT ![c] = "leave_bcast"]
                       /\ UNCHANGED player_to_room
          ELSE /\ player_to_room' = Pop(player_to_room, player_id[c])
               /\ pc' = [pc EXCEPT ![c] = "closed"]
               /\ UNCHANGED games
     ELSE /\ pc' = [pc EXCEPT ![c] = "closed"]
          /\ UNCHANGED <<games, player_to_room>>

\* Lines 302-304: the leave broadcast has been sent; the mapping is dropped.
LeaveDone(c) ==
  /\ UNCHANGED aux
  /\ pc[c] = "leave_bcast"
  /\ player_to_room' = Pop(player_to_room, player_id[c])
  /\ pc' = [pc EXCEPT ![c] = "closed"]
  /\ UNCHANGED <<games, issued, room_id, player_id, last, msgs>>

Next ==
  \/ \E r \in RoomIds : CreateRoom(r)
  \/ \E c \in Conns : Connect(c)
  \/ \E c \in Conns, r \in RoomIds, p \in PlayerIds : JoinRoom(c, r, p)
  \/ \E c \in Conns : Ready(c)
  \/ \E c \in Conns, a \in Actions : Bet(c, a)
  \/ \E c \in Conns : NewGameMsg(c)
  \/ \E c \in Conns : Disconnect(c)
  \/ \E c \in Conns : LeaveDone(c)

Spec == Init /\ [][Next]_vars

\* ------------------------------------------------------ claim vocabulary

\* The step just taken processed websocket message m (argument a) of c.
Handled(c, m, a) ==
  /\ msgs' = msgs + 1
  /\ last'.conn = c
  /\ last'.msg = m
  /\ last'.arg = a

\* Sum of a field over a player list.
RECURSIVE SumChips(_)
SumChips(players) ==
  IF players = <<>> THEN 0
  ELSE Head(players).chips + SumChips(Tail(players))

RECURSIVE SumBets(_)
SumBets(players) ==
  IF players = <<>> THEN 0
  ELSE Head(players).current_bet + SumBets(Tail(players))

\* The seat (1-based) the handler of c acts for in room g, 0 when none: the
\* first player carrying the handler's player_id.
SeatOf(c, g) ==
  IF \E i \in 1..Len(g.players) : g.players[i].id = player_id[c]
  THEN CHOOSE i \in 1..Len(g.players) :
         /\ g.players[i].id = player_id[c]
         /\ \A j \in 1..(i - 1) : g.players[j].id # player_id[c]
  ELSE 0

\* c's handler is bound to an existing room, holds a seat in it, the room is
\* betting and the turn index points at a player carrying c's player id.
AtTurn(c) ==
  /\ room_id[c] \in DOMAIN games
  /\ LET g == games[room_id[c]]
     IN /\ SeatOf(c, g) # 0
        /\ g.phase = "betting"
        /\ g.current_player < Len(g.players)
        /\ g.players[g.current_player + 1].id = player_id[c]

\* ------------------------------------------------------------------- C1

\* C1: every room's player list holds at most 2 players in every reachable
\* state (so a join_room aimed at a room with 2 players never adds one).
C1_AtMostTwoPlayers ==
  \A r \in DOMAIN games : Len(games[r].players) <= 2

\* A join_room has just been answered with the capacity error by a room that
\* holds 2 players.
C1_Witness ==
  /\ last.msg = "join_room"
  /\ last.out = "error"
  /\ room_id[last.conn] \in DOMAIN games
  /\ Len(games[room_id[last.conn]].players) = 2

\* ------------------------------------------------------------------- C2
\* The end-to-end round of the spec's scenario: the server takes only the
\* scenario's messages.  Each connection joins once, into an existing room,
\* under a player id nobody in the room carries; a seated player sends ready
\* once while the room waits; seated players call (a call out of turn or
\* out of the betting phase is dropped, so the calls that count are those of
\* the player at the turn).

E2EJoin(c, r, p) ==
  /\ room_id[c] = None
  /\ r \in DOMAIN games
  /\ \A i \in 1..Len(games[r].players) : games[r].players[i].id # p
  /\ JoinRoom(c, r, p)

E2EReady(c) ==
  /\ room_id[c] \in DOMAIN games
  /\ SeatOf(c, games[room_id[c]]) # 0
  /\ games[room_id[c]].phase = "waiting"
  /\ ~games[room_id[c]].players[SeatOf(c, games[room_id[c]])].is_ready
  /\ Ready(c)

E2ECall(c) ==
  /\ room_id[c] \in DOMAIN games
  /\ SeatOf(c, games[room_id[c]]) # 0
  /\ Bet(c, "call")

E2ENext ==
  \/ \E r \in RoomIds : CreateRoom(r)
  \/ \E c \in Conns : Connect(c)
  \/ \E c \in Conns, r \in RoomIds, p \in PlayerIds : E2EJoin(c, r, p)
  \/ \E c \in Conns : E2EReady(c)
  \/ \E c \in Conns : E2ECall(c)

E2ESpec == Init /\ [][E2ENext]_vars

\* The stages of the scenario's round in room g; strict asks the winner's
\* rank to be greater than the loser's, not strict lets equal ranks go to
\* seat 0.
E2ERound(g, strict) ==
  /\ g.phase \in {"waiting", "betting", "finished"}
  /\ g.phase = "waiting" =>
       /\ g.pot = 0
       /\ \A i \in 1..Len(g.players) :
            g.players[i].chips = StartChips /\ g.players[i].cards = <<>>
  /\ g.phase = "betting" =>
       /\ Len(g.players) = 2
       /\ \A i \in 1..2 : Len(g.players[i].cards) = 2
       /\ \/ /\ g.pot = 0
             /\ g.current_player = 0
             /\ g.players[1].chips = 5000
             /\ g.players[2].chips = 5000
          \/ /\ g.pot = 100
             /\ g.current_player = 1
             /\ g.players[1].chips = 4900
             /\ g.players[1].current_bet = 100
             /\ g.players[2].chips = 5000
  /\ g.phase = "finished" =>
       /\ Len(g.players) = 2
       /\ g.pot = 200
       /\ g.players[2].current_bet = 100
       /\ \E w \in 1..2 :
            LET l == 3 - w
            IN /\ g.winner = g.players[w].name
               /\ g.players[w].chips = 5100
               /\ g.players[l].chips = 4900
               /\ IF strict
                  THEN g.players[w].hand_value > g.players[l].hand_value
                  ELSE /\ g.players[w].hand_value >= g.players[l].hand_value
                       /\ g.players[w].hand_value = g.players[l].hand_value
                            => w = 1

\* C2 as stated: join, join, ready, ready gives Betting with turn 0 and two
\* cards each; the first call leaves 4900 / pot 100 / turn 1; the second call
\* ends the round Finished with pot 200, the winner being the player of the
\* higher hand rank, at 5100 chips, the loser at 4900.
C2_Original ==
  \A r \in DOMAIN games : E2ERound(games[r], TRUE)

\* C2 amended: the same, the winner being a player whose hand rank is not
\* below the other's; on equal ranks the player of seat 0 wins.
C2_EndToEnd ==
  \A r \in DOMAIN games : E2ERound(games[r], FALSE)

\* The second call has ended a round: seat 1 was dealt the higher rank and
\* holds 5100 chips.
C2_Witness ==
  \E r \in DOMAIN games :
    /\ games[r].phase = "finished"
    /\ last.msg = "bet" /\ last.arg = "call"
    /\ games[r].pot = 200
    /\ games[r].players[2].chips = 5100
    /\ games[r].players[2].hand_value > games[r].players[1].hand_value

\* ------------------------------------------------------------------- C3

\* The chips the action asks of the player at seat i: min_bet for call,
\* pot // 2 for half.
Required(g, a) == IF a = "call" THEN g.min_bet ELSE g.pot \div 2

\* The bet a of c is illegal in the current state: c is not the player at
\* the turn of a betting room, or it is and cannot pay the call or half
\* (the chips read are those of the seat c acts for, and those of the seat
\* at the turn index, which differ when two seats carry one id).
IllegalBet(c, a) ==
  \/ ~AtTurn(c)
  \/ /\ a \in {"call", "half"}
     /\ LET g == games[room_id[c]]
        IN \/ g.players[SeatOf(c, g)].chips < Required(g, a)
           \/ g.players[g.current_player + 1].chips < Required(g, a)

\* C3: an illegal bet (not the player at the turn, phase not Betting, or a
\* call / half the player at the turn cannot pay) changes no field of any
\* room or player, the turn included, nor the registry.
C3_IllegalBetNoOp ==
  [][\A c \in Conns, a \in Actions :
       (Handled(c, "bet", a) /\ IllegalBet(c, a))
         => (games' = games /\ player_to_room' = player_to_room)]_vars

\* The player at the turn has just sent a call or half it cannot pay: the
\* handler took the bet branch and it is still that player's turn.
C3_Witness ==
  /\ last.msg = "bet"
  /\ last.arg \in {"call", "half"}
  /\ last.out = "state"
  /\ AtTurn(last.conn)
  /\ LET g == games[room_id[last.conn]]
     IN /\ Len(g.players) = 2
        /\ g.players[1].id # g.players[2].id
        /\ g.players[SeatOf(last.conn, g)].chips < Required(g, last.arg)

\* ------------------------------------------------------------------- C4

\* C4 as stated: a fold by the player at the turn of a betting room marks
\* that player Folded, credits the pot held before the fold to the other
\* seated player, records that player's name as winner and ends the round
\* Finished in the same step.
C4_FoldEndsHand ==
  [][\A c \in Conns :
       (Handled(c, "bet", "fold") /\ AtTurn(c)) =>
         LET r == room_id[c]
             g == games[r]
             i == SeatOf(c, g)
         IN /\ r \in DOMAIN games'
            /\ games'[r].players[i].status = "folded"
            /\ games'[r].phase = "finished"
            /\ \E w \in (1..Len(g.players)) \ {i} :
                 /\ games'[r].players[w].chips = g.players[w].chips + g.pot
                 /\ games'[r].winner = g.players[w].name]_vars

\* ------------------------------------------------------------------- C5

\* c is the player at the turn and sends call holding at least min_bet.
PaidCall(c) ==
  /\ AtTurn(c)
  /\ LET g == games[room_id[c]]
     IN g.players[SeatOf(c, g)].chips >= g.min_bet

\* c is the player at the turn and sends a call, half or all-in it can pay.
PaidBet(c, a) ==
  /\ AtTurn(c)
  /\ a \in {"call", "half", "all-in"}
  /\ a \in {"call", "half"} =>
       LET g == games[room_id[c]]
       IN g.players[SeatOf(c, g)].chips >= Required(g, a)

\* Room g seats two players of different ids, both dealt into the round and
\* neither folded nor all-in.
Dealt(g) ==
  /\ Len(g.players) = 2
  /\ g.players[1].id # g.players[2].id
  /\ \A i \in 1..2 :
       g.players[i].status = "playing" /\ Len(g.players[i].cards) = 2

\* C5 as stated, read on rooms that seat two dealt players: a
\* paid call raises the pot and the caller's current_bet by min_bet, lowers
\* the caller's chips by exactly min_bet and moves the turn index to the
\* other seated player.
C5_Original ==
  [][\A c \in Conns :
       (Handled(c, "bet", "call") /\ PaidCall(c)
          /\ Dealt(games[room_id[c]])) =>
         LET r == room_id[c]
             g == games[r]
             h == games'[r]
             i == SeatOf(c, g)
         IN /\ h.pot = g.pot + g.min_bet
            /\ h.players[i].current_bet = g.players[i].current_bet + g.min_bet
            /\ h.players[i].chips = g.players[i].chips - g.min_bet
            /\ h.current_player # g.current_player
            /\ h.current_player < Len(h.players)]_vars

\* C5 amended: a paid call raises the pot and the caller's current_bet by
\* min_bet and sets the turn index to (current_player + 1) mod 2; the
\* caller's chips drop by exactly min_bet unless the call resolves the round
\* (phase Finished), where the whole pot, this bet included, is credited to
\* the recorded winner, who may be the caller.  Every paid call, half and
\* all-in sets the turn index to (current_player + 1) mod 2.
C5_CallEffect ==
  [][\A c \in Conns :
       /\ (Handled(c, "bet", "call") /\ PaidCall(c)) =>
            LET r == room_id[c]
                g == games[r]
                h == games'[r]
                i == SeatOf(c, g)
                debit(j) == IF j = i THEN g.min_bet ELSE 0
            IN /\ h.pot = g.pot + g.min_bet
               /\ h.players[i].current_bet
                    = g.players[i].current_bet + g.min_bet
               /\ h.current_player = (g.current_player + 1) % 2
               /\ IF h.phase = "finished"
                  THEN \E w \in 1..Len(g.players) :
                         /\ h.winner = g.players[w].name
                         /\ \A j \in 1..Len(g.players) :
                              h.players[j].chips
                                = g.players[j].chips - debit(j)
                                  + (IF j = w THEN h.pot ELSE 0)
                  ELSE \A j \in 1..Len(g.players) :
                         h.players[j].chips = g.players[j].chips - debit(j)
       /\ \A a \in Actions :
            (Handled(c, "bet", a) /\ PaidBet(c, a)) =>
              games'[room_id[c]].current_player
                = (games[room_id[c]].current_player + 1) % 2]_vars

\* A paid call has just resolved the round in the caller's favour: the
\* caller holds more chips than before the call.
C5_Witness ==
  /\ last.msg = "bet" /\ last.arg = "call" /\ last.out = "state"
  /\ room_id[last.conn] \in DOMAIN games
  /\ LET g == games[room_id[last.conn]]
         i == SeatOf(last.conn, g)
     IN /\ i # 0
        /\ g.phase = "finished"
        /\ g.winner = g.players[i].name
        /\ g.players[i].current_bet = g.min_bet
        /\ g.players[i].chips = StartChips - g.min_bet + g.pot

\* ------------------------------------------------------------------- C6

\* The step just taken was a new_game bound to room r.
NewGameStep(r) ==
  \E c \in Conns : Handled(c, "new_game", "") /\ room_id[c] = r

\* The step just taken was the ready of a seated player of room r that left
\* both seats taken and every player ready.
LastReadyStep(r) ==
  \E c \in Conns :
    /\ Handled(c, "ready", "")
    /\ room_id[c] = r
    /\ LET g == games[r]
           i == SeatOf(c, g)
       IN /\ i # 0
          /\ Len(g.players) = 2
          /\ \A j \in (1..2) \ {i} : g.players[j].is_ready

\* All cards held in the room, seat by seat.
RECURSIVE AllCards(_)
AllCards(players) ==
  IF players = <<>> THEN <<>>
  ELSE Head(players).cards \o AllCards(Tail(players))

\* Room g as a round start leaves it.
FreshRound(g) ==
  /\ g.phase = "betting"
  /\ g.pot = 0
  /\ g.current_player = 0
  /\ \A i \in 1..Len(g.players) :
       /\ g.players[i].current_bet = 0
       /\ g.players[i].status = "playing"
       /\ ~g.players[i].is_ready
       /\ Len(g.players[i].cards) = 2
       /\ g.players[i].hand_value
            = calculate_hand_value(g.players[i].cards).value
  /\ LET held == AllCards(g.players)
     IN \A i, j \in 1..Len(held) :
          /\ held[i] \in 1..DeckSize
          /\ i # j => held[i] # held[j]

\* C6: every entry into Betting (a step that takes a room from another
\* phase to Betting, a new_game in any phase, the ready that completes the
\* pair) leaves pot 0, turn 0, and every seated player with current_bet 0,
\* status Playing, not ready, and two dealt cards no other hand holds whose
\* rank is the player's hand_value.
C6_RoundReset ==
  [][\A r \in DOMAIN games :
       ((r \in DOMAIN games' /\ games'[r].phase = "betting"
           /\ games[r].phase # "betting")
        \/ NewGameStep(r) \/ LastReadyStep(r))
         => (r \in DOMAIN games' /\ FreshRound(games'[r]))]_vars

\* A new_game has just restarted a room in which chips had moved: the pot is
\* back to 0 although a player holds other than the starting chips.
C6_Witness ==
  /\ last.msg = "new_game"
  /\ last.out = "state"
  /\ LET g == games[room_id[last.conn]]
     IN /\ Len(g.players) = 2
        /\ g.pot = 0
        /\ g.phase = "betting"
        /\ \E i \in 1..2 : g.players[i].chips # StartChips

\* ------------------------------------------------------------------- C7

\* C7 as stated: while a room is betting, current_player is an index into
\* its player list.
C7_TurnIndexValid ==
  \A r \in DOMAIN games :
    games[r].phase = "betting" =>
      (0 <= games[r].current_player
         /\ games[r].current_player < Len(games[r].players))

\* ------------------------------------------------------------------- C8

\* What the round of room g has paid to a winner: both payouts (lines 249
\* and 266) credit game.pot and set the phase Finished in the same step.
PaidOut(g) == IF g.phase = "finished" THEN g.pot ELSE 0

\* No handler has ended: no player was ever removed from a room.
NobodyLeft == \A c \in Conns : pc[c] \in {"off", "recv"}

\* C8 as stated, read on the states in which nobody has left and on the
\* rooms that seat two dealt players: the pot is the sum of the players'
\* current_bet less what was paid to a winner.
C8_Original ==
  NobodyLeft =>
    \A r \in DOMAIN games :
      Dealt(games[r]) =>
        games[r].pot = SumBets(games[r].players) - PaidOut(games[r])

\* C8 amended: the pot is the sum of the bets placed in the round and is not
\* reduced by a payout.  A new room has pot 0; a step that removes players
\* leaves the pot as it is; any other step either starts a round (pot 0, all
\* current_bet 0) or adds to the pot exactly what it adds to the seated
\* players' current_bet, never a negative amount.  So the pot is never below
\* the sum of the seated players' current_bet and equals it while nobody who
\* bet in the round has left; a step into Betting leaves pot 0.
C8_PotAccounting ==
  [][\A r \in DOMAIN games' :
       LET h == games'[r]
       IN /\ h.pot >= SumBets(h.players)
          /\ SumBets(h.players) >= 0
          /\ IF r \notin DOMAIN games
             THEN h.pot = 0
             ELSE LET g == games[r]
                  IN /\ (g.phase # "betting" /\ h.phase = "betting")
                          => h.pot = 0
                     /\ IF Len(h.players) < Len(g.players)
                        THEN h.pot = g.pot
                        ELSE \/ h.pot = 0 /\ SumBets(h.players) = 0
                             \/ /\ h.pot >= g.pot
                                /\ h.pot - g.pot
                                     = SumBets(h.players) - SumBets(g.players)
    ]_vars

\* A round has been paid out and the pot still shows the bets: phase
\* Finished, a winner at more than the starting chips, pot not 0.
C8_Witness ==
  \E r \in DOMAIN games :
    /\ games[r].phase = "finished"
    /\ games[r].pot > 0
    /\ games[r].pot = SumBets(games[r].players)
    /\ \E i \in 1..Len(games[r].players) :
         /\ games[r].winner = games[r].players[i].name
         /\ games[r].players[i].chips > StartChips

\* ------------------------------------------------------------------- C9

\* Room r seats a player of id p.
SeatedIn(p, r) ==
  r \in DOMAIN games
    /\ \E i \in 1..Len(games[r].players) : games[r].players[i].id = p

\* C9 as stated: no player id is seated twice in a room or in two rooms, and
\* player_to_room[p] = r exactly when p is seated in games[r].
C9_OneSeatPerPlayer ==
  /\ \A r \in DOMAIN games :
       \A i, j \in 1..Len(games[r].players) :
         i # j => games[r].players[i].id # games[r].players[j].id
  /\ \A p \in PlayerIds :
       \A r1, r2 \in RoomIds :
         (SeatedIn(p, r1) /\ SeatedIn(p, r2)) => r1 = r2
  /\ \A p \in PlayerIds :
       \A r \in RoomIds :
         (p \in DOMAIN player_to_room /\ player_to_room[p] = r)
           <=> SeatedIn(p, r)

\* ------------------------------------------------------------------ C10

\* C10 as stated: once a connection has disconnected, no room of the
\* registry seats a player that connection seated.
C10_LeaveOnDisconnect ==
  \A c \in Conns :
    pc[c] = "closed" =>
      \A r \in DOMAIN games :
        \A i \in 1..Len(games[r].players) :
          games[r].players[i].websocket # c

\* ------------------------------------------------------------------ C11

\* C11: a join_room naming a room that holds 2 players is answered with the
\* error message alone (no game_state is sent) and leaves every room and
\* player_to_room as they were, the handler going on to the next message; a
\* join_room naming a room the registry does not hold changes no room and no
\* player_to_room entry and sends no game_state.
C11_JoinRejected ==
  [][\A c \in Conns :
       Handled(c, "join_room", "") =>
         LET r == room_id'[c]
         IN /\ (r \in DOMAIN games /\ Len(games[r].players) >= 2) =>
                 /\ games' = games
                 /\ player_to_room' = player_to_room
                 /\ last'.out = "error"
                 /\ pc'[c] = "recv"
            /\ r \notin DOMAIN games =>
                 /\ games' = games
                 /\ player_to_room' = player_to_room
                 /\ last'.out = "return"]_vars

\* A connection that holds no seat in a room of 2 players has just had its
\* join_room to that room answered with the error.
C11_Witness ==
  /\ last.msg = "join_room"
  /\ last.out = "error"
  /\ room_id[last.conn] \in DOMAIN games
  /\ LET g == games[room_id[last.conn]]
     IN /\ Len(g.players) = 2
        /\ \A i \in 1..2 : g.players[i].websocket # last.conn

\* ------------------------------------------------------------------ C12

\* C12 as stated: a room goes from Waiting to Betting only in the step of a
\* ready that finds 2 players seated, sent by one of them with the other's
\* ready flag already set.
C12_ReadyGate ==
  [][\A r \in DOMAIN games :
       (r \in DOMAIN games'
          /\ games[r].phase = "waiting"
          /\ games'[r].phase = "betting")
         => LastReadyStep(r)]_vars

\* ------------------------------------------------------------------ C13

\* The step just taken was a call of c that ended the hand of room r by
\* showdown: the room was betting and is finished.
ShowdownStep(c, r) ==
  /\ Handled(c, "bet", "call")
  /\ room_id[c] = r
  /\ r \in DOMAIN games
  /\ r \in DOMAIN games'
  /\ games[r].phase = "betting"
  /\ games'[r].phase = "finished"

\* Seat w of room h (after the step, g before it) is the paid winner of the
\* showdown the call of seat i ended: not folded, recorded by name, and
\* credited the pot on top of the call's debit if w made the call.
PaidWinner(g, h, i, w) ==
  /\ h.players[w].status # "folded"
  /\ h.winner = h.players[w].name
  /\ h.pot = g.pot + g.min_bet
  /\ h.players[w].chips
       = g.players[w].chips - (IF w = i THEN g.min_bet ELSE 0) + h.pot

\* C13 as stated, read on rooms that seat two dealt players: the winner of
\* a showdown is a non-folded player whose hand rank is strictly greater than
\* that of every other non-folded player, is credited the pot, and the phase
\* is Finished.
C13_Original ==
  [][\A c \in Conns : \A r \in RoomIds :
       (ShowdownStep(c, r) /\ Dealt(games[r])) =>
         LET g == games[r]
             h == games'[r]
         IN \E w \in 1..Len(h.players) :
              /\ PaidWinner(g, h, SeatOf(c, g), w)
              /\ \A j \in 1..Len(h.players) :
                   (j # w /\ h.players[j].status # "folded")
                     => h.players[j].hand_value < h.players[w].hand_value
    ]_vars

\* C13 amended: a showdown is held between exactly two non-folded players;
\* its winner is a non-folded player whose hand rank no other non-folded
\* player exceeds, the first in seating order among those of that rank; the
\* winner is recorded by name and credited the whole pot (the call included),
\* nobody else is credited, and the phase is Finished.
C13_ShowdownWinner ==
  [][\A c \in Conns : \A r \in RoomIds :
       ShowdownStep(c, r) =>
         LET g == games[r]
             h == games'[r]
             i == SeatOf(c, g)
         IN /\ Len(h.players) = Len(g.players)
            /\ Cardinality({j \in 1..Len(h.players) :
                              h.players[j].status # "folded"}) = 2
            /\ \E w \in 1..Len(h.players) :
                 /\ PaidWinner(g, h, i, w)
                 /\ \A j \in 1..Len(h.players) :
                      h.players[j].status # "folded" =>
                        /\ h.players[j].hand_value <= h.players[w].hand_value
                        /\ j < w =>
                             h.players[j].hand_value < h.players[w].hand_value
                 /\ \A j \in 1..Len(h.players) :
                      j # w =>
                        h.players[j].chips
                          = g.players[j].chips
                              - (IF j = i THEN g.min_bet ELSE 0)
    ]_vars

\* A showdown between two dealt players of equal hand rank has just been
\* decided for the first seat.
C13_Witness ==
  /\ last.msg = "bet"
  /\ last.arg = "call"
  /\ last.out = "state"
  /\ room_id[last.conn] \in DOMAIN games
  /\ LET g == games[room_id[last.conn]]
     IN /\ Dealt(g)
        /\ g.phase = "finished"
        /\ g.players[1].websocket # g.players[2].websocket
        /\ g.players[1].hand_value = g.players[2].hand_value
        /\ g.winner = g.players[1].name
        /\ g.players[1].chips = StartChips + g.min_bet
        /\ g.players[2].chips = StartChips - g.min_bet

\* ------------------------------------------------------------------ C14

\* The step just taken ended with broadcast_game_state on room r: a message
\* handler answered with the room's game_state, or a disconnect kept the
\* room and went on to its broadcast.
BroadcastStep(r) ==
  \/ /\ msgs' = msgs + 1
     /\ last'.out = "state"
     /\ room_id'[last'.conn] = r
  \/ \E c \in Conns :
       /\ pc[c] = "recv"
       /\ pc'[c] = "leave_bcast"
       /\ room_id[c] = r

\* C14 as stated: every step that changes a room that stays in the registry
\* ends with the broadcast of that room's game_state.
C14_BroadcastAfterMutation ==
  [][\A r \in DOMAIN games :
       (r \in DOMAIN games' /\ games'[r] # games[r]) => BroadcastStep(r)]_vars

\* ------------------------------------------------------------------ C15

\* The handlers with the awaited sends of broadcast_game_state as steps of
\* their own: a handler mutates the room, builds the snapshot (lines
\* 118-143) and hands it to the first player's socket in one step, up to the
\* first await that can suspend it; each further send_text of the loop
\* (lines 144-149) is a step, and other handlers run between the sends.

\* The handler of c has changed room r and starts to broadcast it: the first
\* player is sent the snapshot, the others are still to come.
StartBroadcast(c, r) ==
  LET h == games'[r]
  IN /\ inbox' = [inbox EXCEPT ![h.players[1].websocket] = <<h>>]
     /\ IF Len(h.players) > 1
        THEN /\ pc' = [pc EXCEPT ![c] = "bcast"]
             /\ sending' = [sending EXCEPT ![c] =
                              [room |-> r, snap |-> <<h>>, at |-> 2]]
        ELSE UNCHANGED <<pc, sending>>

\* Lines 202-225 up to the first suspension.
AsyncJoin(c, r, p) ==
  /\ pc[c] = "recv"
  /\ msgs < MaxMsgs
  /\ msgs' = msgs + 1
  /\ room_id' = [room_id EXCEPT ![c] = r]
  /\ player_id' = [player_id EXCEPT ![c] = p]
  /\ UNCHANGED <<issued, eval_cards, eval_rank>>
  /\ IF r \notin DOMAIN games
     THEN /\ pc' = [pc EXCEPT ![c] = "returned"]
          /\ last' = Msg(c, "join_room", "", "return")
          /\ UNCHANGED <<games, player_to_room, sending, inbox>>
     ELSE IF ~HasSeat(games[r])
     THEN /\ last' = Msg(c, "join_room", "", "error")
          /\ UNCHANGED <<games, player_to_room, pc, sending, inbox>>
     ELSE /\ games' = [games EXCEPT ![r] = Seat(@, p, c)]
          /\ player_to_room' = Put(player_to_room, p, r)
          /\ last' = Msg(c, "join_room", "", "state")
          /\ StartBroadcast(c, r)

\* Lines 227-235 up to the first suspension.
AsyncReady(c) ==
  /\ pc[c] = "recv"
  /\ msgs < MaxMsgs
  /\ msgs' = msgs + 1
  /\ UNCHANGED <<player_to_room, issued, room_id, player_id,
                 eval_cards, eval_rank>>
  /\ IF room_id[c] \notin DOMAIN games
     THEN /\ pc' = [pc EXCEPT ![c] = "crashed"]
          /\ last' = Msg(c, "ready", "", "crash")
          /\ UNCHANGED <<games, sending, inbox>>
     ELSE LET r == room_id[c]
              g == games[r]
              i == FindPlayer(g.players, player_id[c])
          IN IF i = 0
             THEN /\ last' = Msg(c, "ready", "", "none")
                  /\ UNCHANGED <<games, pc, sending, inbox>>
             ELSE LET marked == [g EXCEPT !.players[i].is_ready = TRUE]
                  IN /\ IF AllReady(marked)
                        THEN \E deck \in Shuffles :
                               games' = [games EXCEPT
                                           ![r] = start_new_round(marked, deck)]
                        ELSE games' = [games EXCEPT ![r] = marked]
                     /\ last' = Msg(c, "ready", "", "state")
                     /\ StartBroadcast(c, r)

\* Lines 288-292 up to the first suspension.
AsyncNewGame(c) ==
  /\ pc[c] = "recv"
  /\ msgs < MaxMsgs
  /\ msgs' = msgs + 1
  /\ UNCHANGED <<player_to_room, issued, room_id, player_id,
                 eval_cards, eval_rank>>
  /\ IF room_id[c] \notin DOMAIN games
     THEN /\ last' = Msg(c, "new_game", "", "none")
          /\ UNCHANGED <<games, pc, sending, inbox>>
     ELSE /\ \E deck \in Shuffles :
               games' = [games EXCEPT
                           ![room_id[c]] = start_new_round(@, deck)]
          /\ last' = Msg(c, "new_game", "", "state")
          /\ StartBroadcast(c, room_id[c])

\* Lines 144-149: the handler resumes and does the next send_text of the
\* loop over game.players, which reads the list as it is now; after the last
\* player the handler is back at receive_text.
SendNext(c) ==
  /\ pc[c] = "bcast"
  /\ LET s == sending[c]
         players == games[s.room].players
     IN /\ inbox' = [inbox EXCEPT ![players[s.at].websocket] = s.snap]
        /\ IF s.at < Len(players)
           THEN /\ sending' = [sending EXCEPT ![c].at = @ + 1]
                /\ UNCHANGED pc
           ELSE /\ sending' = [sending EXCEPT ![c] = NoSend]
                /\ pc' = [pc EXCEPT ![c] = "recv"]
  /\ UNCHANGED <<games, player_to_room, issued, room_id, player_id, last,
                 msgs, eval_cards, eval_rank>>

AsyncNext ==
  \/ \E r \in RoomIds : CreateRoom(r)
  \/ \E c \in Conns : Connect(c)
  \/ \E c \in Conns, r \in RoomIds, p \in PlayerIds : AsyncJoin(c, r, p)
  \/ \E c \in Conns : AsyncReady(c)
  \/ \E c \in Conns : AsyncNewGame(c)
  \/ \E c \in Conns : SendNext(c)

AsyncSpec == Init /\ [][AsyncNext]_vars

\* C15 as stated, its consequence for the players: once no handler is in a
\* broadcast, the game_state each seated player with a live handler received
\* last is the room's current state.
C15_SnapshotsCurrent ==
  (\A c \in Conns : pc[c] # "bcast") =>
    \A r \in DOMAIN games :
      \A i \in 1..Len(games[r].players) :
        pc[games[r].players[i].websocket] = "recv" =>
          inbox[games[r].players[i].websocket] = <<games[r]>>

\* ------------------------------------------------------------------ C16

\* calculate_hand_value on its own: any two cards of the deck go in, the
\* result comes out.
HandInit ==
  /\ games = [r \in {} |-> NewGame(r)]
  /\ player_to_room = [p \in {} |-> None]
  /\ issued = {}
  /\ pc = [c \in Conns |-> "off"]
  /\ room_id = [c \in Conns |-> None]
  /\ player_id = [c \in Conns |-> None]
  /\ last = Msg(None, "", "", "")
  /\ msgs = 0
  /\ sending = [c \in Conns |-> NoSend]
  /\ inbox = [c \in Conns |-> <<>>]
  /\ eval_cards \in {<<a, b>> : a \in 1..DeckSize, b \in 1..DeckSize}
  /\ eval_rank = <<>>

HandEval ==
  /\ eval_rank = <<>>
  /\ eval_rank' = <<calculate_hand_value(eval_cards)>>
  /\ UNCHANGED <<games, player_to_room, issued, pc, room_id, player_id, last,
                 msgs, sending, inbox, eval_cards>>

HandNext == HandEval

HandSpec == HandInit /\ [][HandNext]_vars

\* The rank the claim gives the months m1, m2.
ClaimedRank(m1, m2) ==
  CASE {m1, m2} = {1, 2} -> 100
    [] {m1, m2} = {1, 4} -> 99
    [] {m1, m2} = {1, 9} -> 98
    [] {m1, m2} = {1, 10} -> 97
    [] {m1, m2} = {4, 10} -> 96
    [] {m1, m2} = {4, 6} -> 95
    [] OTHER -> IF m1 = m2 THEN 90 + m1 ELSE (m1 + m2) % 10

\* C16: for two cards of months m1, m2 calculate_hand_value returns rank 100,
\* 99, 98, 97, 96, 95 for the unordered pairs (1,2), (1,4), (1,9), (1,10),
\* (4,10), (4,6), else 90 + m1 when m1 = m2, else (m1 + m2) mod 10 with the
\* label the ten-label table holds at that index; the rank is the same with
\* the cards swapped and for any other cards of the same months.
C16_HandValue ==
  eval_rank # <<>> =>
    LET m1 == Month(eval_cards[1])
        m2 == Month(eval_cards[2])
        v == eval_rank[1].value
    IN /\ v = ClaimedRank(m1, m2)
       /\ (v < 90) => eval_rank[1].name = KkeutNames[((m1 + m2) % 10) + 1]
       /\ calculate_hand_value(<<eval_cards[2], eval_cards[1]>>).value = v
       /\ \A a, b \in 1..DeckSize :
            ({Month(a), Month(b)} = {m1, m2})
              => calculate_hand_value(<<a, b>>).value = v

\* A special pair given in the order the table does not list (months 10, 4)
\* has been evaluated to its rank 96.
C16_Witness ==
  /\ eval_rank # <<>>
  /\ Month(eval_cards[1]) = 10
  /\ Month(eval_cards[2]) = 4
  /\ eval_rank[1].value = 96

\* ------------------------------------------------------------------ C17

\* The hands of room g: each empty or of 2 cards, no card of the deck held
\* twice in the room, each rank non-negative and, for a dealt hand, the one
\* calculate_hand_value gives the cards held.
HandsOk(g) ==
  /\ \A i \in 1..Len(g.players) :
       /\ Len(g.players[i].cards) \in {0, 2}
       /\ g.players[i].hand_value >= 0
       /\ Len(g.players[i].cards) = 2 =>
            g.players[i].hand_value
              = calculate_hand_value(g.players[i].cards).value
  /\ LET held == AllCards(g.players)
     IN \A i, j \in 1..Len(held) :
          /\ held[i] \in 1..DeckSize
          /\ i # j => held[i] # held[j]

\* C17: after every step the hands of every room are as HandsOk says, and a
\* step that deals (a new_game, the ready that completes the pair) leaves
\* every seated player with exactly 2 cards.
C17_DealtHands ==
  [][\A r \in DOMAIN games' :
       /\ HandsOk(games'[r])
       /\ (r \in DOMAIN games /\ (NewGameStep(r) \/ LastReadyStep(r))) =>
            \A i \in 1..Len(games'[r].players) :
              Len(games'[r].players[i].cards) = 2]_vars

\* The ready that completes the pair has just dealt to two players seated by
\* two connections: two hands of 2 cards each.
C17_Witness ==
  /\ last.msg = "ready"
  /\ last.out = "state"
  /\ room_id[last.conn] \in DOMAIN games
  /\ LET g == games[room_id[last.conn]]
     IN /\ g.phase = "betting"
        /\ Len(g.players) = 2
        /\ g.players[1].websocket # g.players[2].websocket
        /\ Len(g.players[1].cards) = 2
        /\ Len(g.players[2].cards) = 2
        /\ g.pot = 0

\* ------------------------------------------------------------------ C18

\* The chips room g holds: those of its players, and the pot until it is
\* paid to a winner.
Held(g) ==
  SumChips(g.players) + (IF g.phase = "finished" THEN 0 ELSE g.pot)

\* Room g seats two players of different ids over two connections and is in
\* one of the phases of a regular round.
TwoSeated(g) ==
  /\ Len(g.players) = 2
  /\ g.players[1].id # g.players[2].id
  /\ g.players[1].websocket # g.players[2].websocket
  /\ g.phase \in {"waiting", "betting", "finished"}

\* C18 as stated, step by step: in a room that seats two players, both of
\* whom stay, no step creates or destroys chips (chips plus pot in Betting,
\* chips alone in Finished, stay what they were) and no chips, current_bet
\* or pot becomes negative.
C18_ChipConservation ==
  [][\A r \in DOMAIN games :
       (r \in DOMAIN games'
          /\ TwoSeated(games[r])
          /\ Len(games'[r].players) = 2) =>
         /\ Held(games'[r]) = Held(games[r])
         /\ games'[r].pot >= 0
         /\ \A i \in 1..2 :
              /\ games'[r].players[i].chips >= 0
              /\ games'[r].players[i].current_bet >= 0]_vars

\* ------------------------------------------------------------------ C19

\* C19 as stated: no handler leaves a room in phase Reveal, so no reachable
\* state between two steps holds a room in that phase.
C19_RevealTransient ==
  \A r \in DOMAIN games : games[r].phase # "reveal"

\* ------------------------------------------------------------------ C20

\* Connection c seated none of the players of room r.
NoSeatIn(c, r) ==
  \A i \in 1..Len(games[r].players) : games[r].players[i].websocket # c

\* The step just taken was the handler of c processing a ready, bet or
\* new_game message, or its disconnect.
ActedAfterJoin(c) ==
  \/ /\ msgs' = msgs + 1
     /\ last'.conn = c
     /\ last'.msg \in {"ready", "bet", "new_game"}
  \/ /\ pc[c] = "recv"
     /\ pc'[c] \in {"closed", "leave_bcast"}

\* C20 as stated: a ready, bet or new_game message or the disconnect of a
\* connection that seated no player of a room leaves that room in the
\* registry and as it was.
C20_OnlySeatedAffect ==
  [][\A c \in Conns : \A r \in DOMAIN games :
       (NoSeatIn(c, r) /\ ActedAfterJoin(c)) =>
         (r \in DOMAIN games' /\ games'[r] = games[r])]_vars

====
